---- MODULE Spec2Model ----
(***************************************************************************)
(* Backup engine, integrity manifest and disaster-recovery manager of the  *)
(* backup system, as a state machine over an abstract file system.         *)
(*                                                                         *)
(* Time is an integer clock `now` (one tick = one second, the resolution   *)
(* of the generated backup ids).  A directory is a function from relative  *)
(* paths to files; a file is [content, modified].                          *)
(***************************************************************************)
EXTENDS Integers, Sequences, FiniteSets, TLC

\* ------------------------------------------------------------------ bounds
MaxTime == 1
MaxHistory == 2
MaxFaults == 1
MaxRecords == 6
MaxThreads == 2

\* --------------------------------------------------------------- constants
\* Relative paths a source tree may hold: two ordinary files, a file that
\* carries the manifest's file name at the top of the tree, and one that
\* carries it inside a sub-directory.
Paths == {"a", "b", "MANIFEST.json", "sub/MANIFEST.json"}

ManifestName == "MANIFEST.json"

\* The `file` component os.walk yields for a relative path.
BaseName(p) == IF p = "sub/MANIFEST.json" THEN "MANIFEST.json" ELSE p

BackupTypes == <<"full", "incremental", "differential">>

\* Backup ids handed in by a caller: the callers of this repository (GUI,
\* scheduler) pass none, every id is generated.
CallerIds == {}

\* The files of the source tree its user rewrites or deletes.
Changing == {"b"}

NoId == <<"", 0>>

\* timedelta(days=365), in seconds.
OneYear == 365 * 24 * 60 * 60

\* Content of the file written by json.dump(manifest, ...): not the content
\* of any source file.
ManifestBytes == <<"manifest", 0>>

\* Content of a file after one of its bytes was flipped.
FlipByte(content) == <<"flipped", content[2]>>

SourceDir == "T"
DestinationDir == "D"

EmptyDir == [p \in {} |-> [content |-> <<"data", 0>>, modified |-> 0]]

EmptyMap == [p \in {} |-> 0]

\* ----------------------------------------------------------------- helpers
\* hashlib digest of a file's bytes: deterministic and collision free.
calculate_file_hash(content) == <<"sha256", content>>

\* os.path.getsize: a write at time t produces 3 + t bytes.
getsize(content) == IF content = ManifestBytes THEN 1 ELSE 3 + content[2]

\* datetime.isoformat / datetime.fromisoformat
isoformat(ts) == <<"iso", ts>>
fromisoformat(s) == s[2]

Merge(f, g) ==
  [p \in (DOMAIN f) \cup (DOMAIN g) |-> IF p \in DOMAIN g THEN g[p] ELSE f[p]]

Restrict(f, S) == [p \in S |-> f[p]]

RECURSIVE SumSizes(_, _)
SumSizes(fl, S) ==
  IF S = {} THEN 0
  ELSE LET p == CHOOSE q \in S : TRUE
       IN fl[p].size + SumSizes(fl, S \ {p})

\* ------------------------------------------------------------------- state
VARIABLES
  now,             \* the wall clock
  source,          \* the source tree: path -> [content, modified]
  disk,            \* backup root: <<type, id>> -> [files, manifest, ctime]
  backup_history,  \* BackupEngine.backup_history['backups']
  history_file,    \* .metadata/backup_history.json
  dest,            \* the restore destination directory
  faults,          \* number of operations hit by an I/O fault so far
  result,          \* what the operation that led to this state returned
  engine,          \* "up" while a constructed BackupEngine exists
  scratch,         \* <backup_root>/.test_recovery, the drill's directory
  threads          \* BackupScheduler's flag and loop threads, and the GUI thread

vars == <<now, source, disk, backup_history, history_file, dest, faults,
          result, engine, scratch, threads>>

\* No operation has just returned (an environment step led here).
Idle == [op |-> "none"]

\* A source tree as it stands before the engine is constructed.
InitialTrees ==
  {[p \in {"a", "b"} \cup S |-> [content |-> <<"data", -1>>, modified |-> -1]] :
     S \in {{}, {"MANIFEST.json"}, {"sub/MANIFEST.json"}}}

\* BackupEngine.__init__ on a fresh backup root: the type directories are
\* empty, no history document exists, _load_history returns {'backups': []}.
Init ==
  /\ now = 0
  /\ source \in InitialTrees
  /\ disk = [k \in {} |-> 0]
  /\ backup_history = <<>>
  /\ history_file = [state |-> "missing", backups |-> <<>>]
  /\ dest = [exists |-> FALSE, files |-> EmptyDir]
  /\ faults = 0
  /\ result = Idle
  /\ engine = "up"
  /\ scratch = [exists |-> FALSE, files |-> EmptyDir]
  /\ threads = [is_running |-> FALSE, loops |-> <<>>, gui |-> "idle"]

\* ------------------------------------------------------------- environment
Tick ==
  /\ now < MaxTime
  /\ now' = now + 1
  /\ result' = Idle
  /\ UNCHANGED <<engine, scratch, source, disk, backup_history, history_file, dest>>

\* A user writes file p of the source tree: new content, modified-time now.
WriteFile(p) ==
  /\ source' = Merge(source, [q \in {p} |->
                   [content |-> <<"data", now>>, modified |-> now]])
  /\ result' = Idle
  /\ UNCHANGED <<engine, scratch, now, disk, backup_history, history_file, dest>>

\* A user deletes file p of the source tree.
DeleteFile(p) ==
  /\ p \in DOMAIN source
  /\ source' = Restrict(source, (DOMAIN source) \ {p})
  /\ result' = Idle
  /\ UNCHANGED <<engine, scratch, now, disk, backup_history, history_file, dest>>

\* ------------------------------------------------------- integrity checker
\* The shipped composition hands one IntegrityChecker to the engine and to
\* the recovery manager (self.integrity_checker is not None).
integrity_checker == TRUE

\* IntegrityChecker.create_backup_manifest: manifest['files'] over a walk of
\* the directory.
create_backup_manifest(files) ==
  [p \in DOMAIN files |->
     [hash |-> calculate_file_hash(files[p].content),
      size |-> getsize(files[p].content),
      modified |-> files[p].modified]]

\* json.load of <dir>/MANIFEST.json succeeds and yields a 'files' map.
ManifestReadable(snap) ==
  /\ ManifestName \in DOMAIN snap.files
  /\ snap.files[ManifestName].content = ManifestBytes

\* verify_backup_integrity that checks the presence of the listed files and
\* not their hashes.
VerifyPresenceOnly(files, readable, manifest) ==
  IF ~readable
  THEN [valid |-> FALSE, total_files |-> 0, verified_files |-> 0,
        corrupted_files |-> {}, missing_files |-> {}]
  ELSE LET missing == {p \in DOMAIN manifest : p \notin DOMAIN files}
       IN [valid |-> missing = {},
           total_files |-> Cardinality(DOMAIN manifest),
           verified_files |-> Cardinality((DOMAIN manifest) \ missing),
           corrupted_files |-> {},
           missing_files |-> missing]

\* IntegrityChecker.verify_backup_integrity(dir, manifest_path): `files` are
\* the files under dir, `readable` tells whether the manifest document could
\* be loaded, `manifest` is its 'files' map.
verify_backup_integrity(files, readable, manifest) ==
  IF ~readable
  THEN [valid |-> FALSE, total_files |-> 0, verified_files |-> 0,
        corrupted_files |-> {}, missing_files |-> {}]
  ELSE LET missing == {p \in DOMAIN manifest : p \notin DOMAIN files}
           corrupted == {p \in (DOMAIN manifest) \ missing :
                           calculate_file_hash(files[p].content) # manifest[p].hash}
           verified == {p \in (DOMAIN manifest) \ missing :
                           calculate_file_hash(files[p].content) = manifest[p].hash}
       IN [valid |-> missing = {} /\ corrupted = {},
           total_files |-> Cardinality(DOMAIN manifest),
           verified_files |-> Cardinality(verified),
           corrupted_files |-> corrupted,
           missing_files |-> missing]

\* ------------------------------------------------------------ backup engine
Max(S) == CHOOSE x \in S : \A y \in S : y <= x

\* _get_last_backup_time without its test of the record's status.
LastAttemptTime(h, t) ==
  IF h = <<>> THEN t - OneYear ELSE h[Len(h)].timestamp

\* BackupEngine._get_last_backup_time over history h at time t.
_get_last_backup_time(h, t) ==
  LET done == {i \in DOMAIN h : h[i].status = "completed"}
  IN IF done = {} THEN t - OneYear ELSE h[Max(done)].timestamp

\* _get_last_full_backup_time without its test of the record's type.
LastBackupTimeOfAnyType(h, t) ==
  LET done == {i \in DOMAIN h : h[i].status = "completed"}
  IN IF done = {} THEN t - OneYear ELSE h[Max(done)].timestamp

\* BackupEngine._get_last_full_backup_time over history h at time t.
_get_last_full_backup_time(h, t) ==
  LET done == {i \in DOMAIN h : h[i].type = "full" /\ h[i].status = "completed"}
  IN IF done = {} THEN t - OneYear ELSE h[Max(done)].timestamp

\* BackupEngine._get_file_list / the file_list built while copying.
_get_file_list(files) ==
  [p \in DOMAIN files |->
     [modified |-> files[p].modified, size |-> getsize(files[p].content)]]

\* The metadata dict created at the start of a backup.
metadata(backup_id, type) ==
  [id |-> backup_id, type |-> type, timestamp |-> now, source |-> SourceDir,
   status |-> "in_progress"]

\* metadata.update({... 'status': 'completed' ...})
Completed(md, file_list, copied_count) ==
  [id |-> md.id, type |-> md.type, timestamp |-> md.timestamp,
   source |-> md.source, status |-> "completed",
   file_count |-> copied_count,
   size_bytes |-> SumSizes(file_list, DOMAIN file_list),
   files |-> file_list]

\* The except handler recording the error and leaving the status as it is.
FailedKeepingStatus(md, err) ==
  [k \in (DOMAIN md) \cup {"error"} |-> IF k = "error" THEN err ELSE md[k]]

\* metadata['status'] = 'failed'; metadata['error'] = str(e)
Failed(md, err) ==
  [k \in (DOMAIN md) \cup {"error"} |->
     IF k = "status" THEN "failed" ELSE IF k = "error" THEN err ELSE md[k]]

\* The copy of a record that _save_history writes: timestamp as ISO string.
Serialize(b) ==
  [k \in DOMAIN b |-> IF k = "timestamp" THEN isoformat(b[k]) ELSE b[k]]

\* BackupEngine._save_history when it succeeds: the whole document is
\* rewritten from the in-memory history h.
_save_history(h) ==
  [state |-> "ok", backups |-> [i \in DOMAIN h |-> Serialize(h[i])]]

\* The history document after a _save_history that raised: open(..., 'w')
\* truncated it and json.dump did not finish.
FailedSave == [state |-> "corrupt", backups |-> <<>>]

\* A record as _load_history returns it: the ISO string parsed back.
Deserialize(b) ==
  [k \in DOMAIN b |-> IF k = "timestamp" THEN fromisoformat(b[k]) ELSE b[k]]

\* BackupEngine._load_history over a document json.load can parse, or over
\* no document.
_load_history(doc) ==
  IF doc.state = "missing" THEN <<>>
  ELSE [i \in DOMAIN doc.backups |-> Deserialize(doc.backups[i])]

\* BackupEngine(backup_root) is constructed again over the same backup root:
\* __init__ calls _load_history, where json.load of a document that cannot
\* be parsed raises out of the constructor and no engine is obtained.
Restart ==
  /\ IF history_file.state = "corrupt"
     THEN /\ engine' = "down"
          /\ backup_history' = <<>>
          /\ result' = [op |-> "load", raised |-> TRUE]
     ELSE /\ engine' = "up"
          /\ backup_history' = _load_history(history_file)
          /\ result' = [op |-> "load", raised |-> FALSE]
  /\ UNCHANGED <<scratch, now, source, disk, history_file, dest>>

\* The written MANIFEST.json file.
ManifestFile == [q \in {ManifestName} |->
                   [content |-> ManifestBytes, modified |-> now]]

\* The snapshot directory a backup leaves: the copied files, and the manifest
\* written over them when create_backup_manifest succeeded.
Snapshot(copied, sealed) ==
  IF sealed
  THEN [files |-> Merge(copied, ManifestFile),
        manifest |-> create_backup_manifest(copied), ctime |-> now]
  ELSE [files |-> copied, manifest |-> EmptyMap, ctime |-> now]

\* The faults that may hit a backup call: "copy" - the copy raised;
\* "manifest" - create_backup_manifest raised; "save" - _save_history raised
\* in the try block and succeeded in the except handler; "save_twice" - it
\* raised in both.
Faults == {"none", "copy", "manifest", "save", "save_twice"}

\* The end of a backup method: append + save in the try block, and the
\* except handler (status failed, error, append, save again).  updated is
\* the metadata after metadata.update, md the metadata before it.
Conclude(op, md, updated, fault) ==
  LET rec == IF fault = "copy" THEN md ELSE updated
      failed == Failed(rec, fault)
      h_try == Append(backup_history, rec)
      h_exc == IF fault \in {"save", "save_twice"}
               THEN Append(Append(backup_history, failed), failed)
               ELSE Append(backup_history, failed)
  IN IF fault = "none"
     THEN [history |-> h_try, file |-> _save_history(h_try),
           result |-> [op |-> op, raised |-> FALSE, ok |-> TRUE,
                       record |-> rec]]
     ELSE IF fault = "save_twice"
     THEN [history |-> h_exc, file |-> FailedSave,
           result |-> [op |-> op, raised |-> TRUE, id |-> rec.id]]
     ELSE [history |-> h_exc, file |-> _save_history(h_exc),
           result |-> [op |-> op, raised |-> FALSE, ok |-> FALSE,
                       record |-> failed]]

\* The snapshot directory holds a manifest when create_backup_manifest ran
\* and did not raise.
Sealed(fault) == integrity_checker /\ fault \notin {"copy", "manifest"}

PutSnapshot(key, snap) ==
  [k \in (DOMAIN disk) \cup {key} |-> IF k = key THEN snap ELSE disk[k]]

\* BackupEngine.full_backup(source_dir, backup_id).  With fault "copy",
\* copytree could not read file bad: it copies the rest and raises.
full_backup(backup_id, fault, bad) ==
  /\ fault = "copy" => bad \in DOMAIN source
  /\ LET md == metadata(backup_id, "full")
         copied == IF fault = "copy"
                   THEN Restrict(source, (DOMAIN source) \ {bad})
                   ELSE source
         file_list == _get_file_list(copied)
         updated == Completed(md, file_list, Cardinality(DOMAIN file_list))
         end == Conclude("full", md, updated, fault)
     IN /\ disk' = PutSnapshot(<<"full", backup_id>>,
                               Snapshot(copied, Sealed(fault)))
        /\ backup_history' = end.history
        /\ history_file' = end.file
        /\ result' = end.result
  /\ UNCHANGED <<engine, scratch, now, source, dest>>

\* ChangedSince with the comparison `>=` in place of `>`.
ChangedSinceOrAt(baseline) ==
  {p \in DOMAIN source : source[p].modified >= baseline}

\* The files the walk of incremental_backup / differential_backup copies.
ChangedSince(baseline) ==
  {p \in DOMAIN source : source[p].modified > baseline}

\* The body shared by incremental_backup and differential_backup (the two
\* methods differ in the baseline only).  With fault "copy", copy2 raised on
\* file bad, the first file it was given.
SelectiveBackup(type, backup_id, baseline, fault, bad) ==
  /\ fault = "copy" => bad \in ChangedSince(baseline)
  /\ LET md == metadata(backup_id, type)
         copied == IF fault = "copy"
                   THEN EmptyDir
                   ELSE Restrict(source, ChangedSince(baseline))
         file_list == _get_file_list(copied)
         updated == Completed(md, file_list, Cardinality(DOMAIN file_list))
         end == Conclude(type, md, updated, fault)
     IN /\ disk' = PutSnapshot(<<type, backup_id>>,
                               Snapshot(copied, Sealed(fault)))
        /\ backup_history' = end.history
        /\ history_file' = end.file
        /\ result' = end.result
  /\ UNCHANGED <<engine, scratch, now, source, dest>>

\* BackupEngine.incremental_backup(source_dir, backup_id)
incremental_backup(backup_id, fault, bad) ==
  SelectiveBackup("incremental", backup_id,
                  _get_last_backup_time(backup_history, now), fault, bad)

\* BackupEngine.differential_backup(source_dir, backup_id)
differential_backup(backup_id, fault, bad) ==
  SelectiveBackup("differential", backup_id,
                  _get_last_full_backup_time(backup_history, now), fault, bad)

\* BackupEngine.delete_all_backups.  fault "backups": rmtree of the first
\* type directory raised before it removed anything; fault "metadata": the
\* snapshots are removed and rmtree of .metadata raised, with the history
\* document already removed (gone) or not.  The handler returns (False, msg)
\* and the in-memory history is left as it was.
delete_all_backups(fault, gone) ==
  /\ fault = "none" => gone
  /\ fault = "backups" => ~gone
  /\ disk' = IF fault = "backups" THEN disk ELSE [k \in {} |-> 0]
  /\ history_file' = IF gone THEN [state |-> "missing", backups |-> <<>>]
                     ELSE history_file
  /\ backup_history' = IF fault = "none" THEN <<>> ELSE backup_history
  /\ result' = [op |-> "delete_all", raised |-> FALSE, ok |-> fault = "none"]
  /\ UNCHANGED <<engine, scratch, now, source, dest>>

\* backup_id = f"{type}_{now:%Y%m%d_%H%M%S}" when the caller gives none.
DefaultId(type) == <<type, now>>

BackupIds(type) == CallerIds \cup {DefaultId(type)}

\* ------------------------------------------------------ disaster recovery
NoPath == <<"", NoId>>

\* DisasterRecoveryManager._find_backup_path
_find_backup_path(backup_id) ==
  IF <<"full", backup_id>> \in DOMAIN disk THEN <<"full", backup_id>>
  ELSE IF <<"incremental", backup_id>> \in DOMAIN disk
  THEN <<"incremental", backup_id>>
  ELSE IF <<"differential", backup_id>> \in DOMAIN disk
  THEN <<"differential", backup_id>>
  ELSE NoPath

\* recovery_id = f"recovery_{now:%Y%m%d_%H%M%S}"
recovery_metadata(backup_id, destination) ==
  [recovery_id |-> <<"recovery", now>>, backup_id |-> backup_id,
   destination |-> destination, timestamp |-> isoformat(now),
   status |-> "in_progress"]

\* The files of a snapshot the copy loop does not skip.
Restorable(snap) == {p \in DOMAIN snap.files : BaseName(p) # ManifestName}

\* The integrity check at the end of restore_from_backup: verification_passed.
verification_passed(backup_path, file_count) ==
  IF integrity_checker /\ file_count > 0
     /\ ManifestName \in DOMAIN disk[backup_path].files
  THEN verify_backup_integrity(disk[backup_path].files,
                               ManifestReadable(disk[backup_path]),
                               disk[backup_path].manifest).valid
  ELSE TRUE

\* The status restore_from_backup gives a restore that raised nothing.
FinalStatus(passed, file_count) ==
  IF passed /\ file_count > 0 THEN "completed" ELSE "completed_with_warnings"

\* The record restore_from_backup returns from its except handler.
RecoveryFailed(md, err) ==
  [recovery_id |-> md.recovery_id, backup_id |-> md.backup_id,
   destination |-> md.destination, timestamp |-> md.timestamp,
   status |-> "failed", error |-> err]

\* NotFound with a message that does not name the id.
NotFoundUnnamed(backup_id) == <<"Backup nije pronadjen", NoId>>

\* str(e) of the exception raised for an id no type directory holds.
NotFound(backup_id) == <<"Backup nije pronadjen", backup_id>>

RestoreEnv == {"ok", "rm_fails", "mkdir_fails"}

\* restore_from_backup that empties and creates the destination before it
\* resolves the backup id.
RestoredAfterClearing(backup_id, d, destination, env, failing) ==
  LET md == recovery_metadata(backup_id, destination)
      backup_path == _find_backup_path(backup_id)
  IN IF backup_path = NoPath
     THEN [dir |-> [exists |-> TRUE, files |-> EmptyDir], ok |-> FALSE,
           record |-> RecoveryFailed(md, NotFound(backup_id))]
     ELSE IF env = "mkdir_fails"
     THEN [dir |-> d, ok |-> FALSE,
           record |-> RecoveryFailed(md, <<"makedirs", NoId>>)]
     ELSE LET snap == disk[backup_path]
              kept == IF env = "rm_fails" THEN d.files ELSE EmptyDir
              copied == Restorable(snap) \ failing
              file_count == Cardinality(copied)
              passed == verification_passed(backup_path, file_count)
          IN [dir |-> [exists |-> TRUE,
                       files |-> Merge(kept, Restrict(snap.files, copied))],
              ok |-> passed /\ file_count > 0,
              record |->
                [recovery_id |-> md.recovery_id,
                 backup_id |-> md.backup_id,
                 destination |-> md.destination,
                 timestamp |-> md.timestamp,
                 status |-> FinalStatus(passed, file_count),
                 file_count |-> file_count,
                 errors |-> failing]]

\* DisasterRecoveryManager.restore_from_backup(backup_id, destination_dir)
\* run on the directory d named destination: the directory it leaves, the
\* flag and the record it returns.
\* env: "rm_fails" - rmtree(ignore_errors=True) could not empty an existing
\* destination; "mkdir_fails" - os.makedirs of a new destination raised.
\* failing: the files whose copy failed on all three attempts.
Restored(backup_id, d, destination, env, failing) ==
  LET md == recovery_metadata(backup_id, destination)
      backup_path == _find_backup_path(backup_id)
  IN IF backup_path = NoPath
     THEN [dir |-> d, ok |-> FALSE,
           record |-> RecoveryFailed(md, NotFound(backup_id))]
     ELSE IF env = "mkdir_fails"
     THEN [dir |-> d, ok |-> FALSE,
           record |-> RecoveryFailed(md, <<"makedirs", NoId>>)]
     ELSE LET snap == disk[backup_path]
              kept == IF env = "rm_fails" THEN d.files ELSE EmptyDir
              copied == Restorable(snap) \ failing
              file_count == Cardinality(copied)
              passed == verification_passed(backup_path, file_count)
          IN [dir |-> [exists |-> TRUE,
                       files |-> Merge(kept, Restrict(snap.files, copied))],
              ok |-> passed /\ file_count > 0,
              record |->
                [recovery_id |-> md.recovery_id,
                 backup_id |-> md.backup_id,
                 destination |-> md.destination,
                 timestamp |-> md.timestamp,
                 status |-> FinalStatus(passed, file_count),
                 file_count |-> file_count,
                 errors |-> failing]]

\* The faults that can hit a restore into directory d: a directory that
\* does not exist is not emptied, one that exists is not created, and only
\* files the copy loop reaches can fail.
RestoreFaultFits(backup_id, d, env, failing) ==
  IF _find_backup_path(backup_id) = NoPath
  THEN env = "ok" /\ failing = {}
  ELSE IF env = "mkdir_fails"
  THEN ~d.exists /\ failing = {}
  ELSE /\ env = "rm_fails" => d.exists
       /\ failing \subseteq Restorable(disk[_find_backup_path(backup_id)])

\* A caller restores backup_id into the destination directory.
restore_from_backup(backup_id, env, failing) ==
  /\ RestoreFaultFits(backup_id, dest, env, failing)
  /\ LET r == Restored(backup_id, dest, DestinationDir, env, failing)
     IN /\ dest' = r.dir
        /\ result' = [op |-> "restore", raised |-> FALSE, ok |-> r.ok,
                      record |-> r.record]
  /\ UNCHANGED <<engine, scratch, now, source, disk, backup_history, history_file>>

\* The copy of one file with a single attempt and no retry.
CopyOnce(raises, retry_count) ==
  [copied |-> raises = 0, attempts |-> 1]

\* The retry loop of restore_from_backup around shutil.copy2 for one file on
\* which copy2 raises OSError `raises` times before it would succeed:
\* whether the file was copied, and the calls of copy2 made.
RECURSIVE CopyWithRetry(_, _)
CopyWithRetry(raises, retry_count) ==
  IF raises > retry_count
  THEN IF retry_count + 1 < 3
       THEN CopyWithRetry(raises, retry_count + 1)
       ELSE [copied |-> FALSE, attempts |-> retry_count + 1]
  ELSE [copied |-> TRUE, attempts |-> retry_count + 1]

\* A caller restores backup_id into the destination directory while copy2
\* raises raises[p] times on file p of the snapshot.
RestoreRetrying(backup_id, raises) ==
  /\ _find_backup_path(backup_id) # NoPath
  /\ DOMAIN raises = Restorable(disk[_find_backup_path(backup_id)])
  /\ LET copy == [p \in DOMAIN raises |-> CopyWithRetry(raises[p], 0)]
         r == Restored(backup_id, dest, DestinationDir, "ok",
                       {p \in DOMAIN raises : ~copy[p].copied})
     IN /\ dest' = r.dir
        /\ result' = [op |-> "restore", raised |-> FALSE, ok |-> r.ok,
                      record |-> r.record, raises |-> raises,
                      attempts |-> [p \in DOMAIN raises |-> copy[p].attempts]]
  /\ UNCHANGED <<engine, scratch, now, source, disk, backup_history,
                 history_file>>

\* The increments loop passing over an id no type directory holds and going
\* on with the ids after it.
RECURSIVE ApplyResolvable(_, _, _, _)
ApplyResolvable(ids, d, total_files, skipped) ==
  IF ids = <<>>
  THEN [dir |-> d, total_files |-> total_files, missing |-> NoId]
  ELSE LET backup_path == _find_backup_path(Head(ids))
       IN IF backup_path = NoPath
          THEN ApplyResolvable(Tail(ids), d, total_files, skipped)
          ELSE LET snap == disk[backup_path]
                   copied == Restorable(snap) \ skipped
               IN ApplyResolvable(
                    Tail(ids),
                    [exists |-> TRUE,
                     files |-> Merge(d.files, Restrict(snap.files, copied))],
                    total_files + Cardinality(copied),
                    skipped)

\* The increments loop of restore_incremental_chain over directory d: every
\* file of each increment but those named MANIFEST.json is copied over d, a
\* copy that raises (skipped) is logged and passed over, and an id no type
\* directory holds ends the loop with an exception (missing).
RECURSIVE ApplyIncrements(_, _, _, _)
ApplyIncrements(ids, d, total_files, skipped) ==
  IF ids = <<>>
  THEN [dir |-> d, total_files |-> total_files, missing |-> NoId]
  ELSE LET backup_path == _find_backup_path(Head(ids))
       IN IF backup_path = NoPath
          THEN [dir |-> d, total_files |-> total_files, missing |-> Head(ids)]
          ELSE LET snap == disk[backup_path]
                   copied == Restorable(snap) \ skipped
               IN ApplyIncrements(
                    Tail(ids),
                    [exists |-> TRUE,
                     files |-> Merge(d.files, Restrict(snap.files, copied))],
                    total_files + Cardinality(copied),
                    skipped)

\* recovery_metadata of restore_incremental_chain.
chain_metadata(full_backup_id, incremental_backup_ids) ==
  [recovery_id |-> <<"recovery_chain", now>>, type |-> "incremental_chain",
   full_backup_id |-> full_backup_id,
   incremental_count |-> Len(incremental_backup_ids),
   destination |-> DestinationDir, timestamp |-> isoformat(now),
   status |-> "in_progress"]

\* The record restore_incremental_chain returns from its except handler.
ChainFailed(md, err) ==
  [k \in (DOMAIN md) \cup {"error"} |->
     IF k = "status" THEN "failed" ELSE IF k = "error" THEN err ELSE md[k]]

\* The record of a chain that ran through.
ChainCompleted(md, total_files) ==
  [k \in (DOMAIN md) \cup {"file_count"} |->
     IF k = "status" THEN "completed"
     ELSE IF k = "file_count" THEN total_files ELSE md[k]]

\* DisasterRecoveryManager.restore_incremental_chain(full_backup_id,
\* incremental_backup_ids, destination_dir).  skipped: the files whose copy
\* out of an increment raises.
restore_incremental_chain(full_backup_id, incremental_backup_ids, skipped) ==
  /\ LET md == chain_metadata(full_backup_id, incremental_backup_ids)
         full == Restored(full_backup_id, dest, DestinationDir, "ok", {})
         rest == ApplyIncrements(incremental_backup_ids, full.dir,
                                 full.record.file_count, skipped)
         call == [full_backup_id |-> full_backup_id,
                  incremental_backup_ids |-> incremental_backup_ids]
     IN IF ~full.ok
        THEN /\ skipped = {}
             /\ dest' = full.dir
             /\ result' = [op |-> "chain", raised |-> FALSE, ok |-> FALSE,
                           call |-> call,
                           record |-> ChainFailed(md,
                                        <<"Oporavak full backupa neuspjesan", NoId>>)]
        ELSE /\ dest' = rest.dir
             /\ skipped # {} =>
                  \E i \in DOMAIN incremental_backup_ids :
                    LET path == _find_backup_path(incremental_backup_ids[i])
                    IN path # NoPath /\ skipped \subseteq Restorable(disk[path])
             /\ result' =
                  IF rest.missing # NoId
                  THEN [op |-> "chain", raised |-> FALSE, ok |-> FALSE,
                        call |-> call,
                        record |-> ChainFailed(md,
                                     <<"Incremental backup nije pronadjen",
                                       rest.missing>>)]
                  ELSE [op |-> "chain", raised |-> FALSE, ok |-> TRUE,
                        call |-> call,
                        record |-> ChainCompleted(md, rest.total_files)]
  /\ UNCHANGED <<engine, scratch, now, source, disk, backup_history, history_file>>

\* The ids a caller may ask to restore.
RestoreIds == {k[2] : k \in DOMAIN disk} \cup {<<"does-not-exist", 0>>}

\* The increment lists a caller may hand to restore_incremental_chain: up to
\* two different ids, in any order.
ChainLists ==
  {<<>>} \cup {<<i>> : i \in RestoreIds}
         \cup {l \in RestoreIds \X RestoreIds : l[1] # l[2]}

\* Cleanup that never removes the directory.
CleanupSkipped(d, cleanup) == d

\* The default test_dir of simulate_disaster_recovery.
ScratchDir == "R/.test_recovery"

\* A directory that does not exist.
NoDir == [exists |-> FALSE, files |-> EmptyDir]

\* The test directory after `if os.path.exists(test_dir):
\* shutil.rmtree(test_dir, ignore_errors=True)`: gone, or with cleanup
\* "rm_fails" still there because the removal failed and the error was
\* ignored.
Cleanup(d, cleanup) == IF cleanup = "rm_fails" /\ d.exists THEN d ELSE NoDir

\* test_results of simulate_disaster_recovery after a restore that returned
\* (success, restore_record) and left directory d.
test_results(backup_id, success, restore_record, d) ==
  LET base == [test_id |-> <<"test", now>>, backup_id |-> backup_id,
               timestamp |-> isoformat(now),
               status |-> IF success THEN "passed" ELSE "failed",
               recovery_successful |-> success,
               file_count |-> IF "file_count" \in DOMAIN restore_record
                              THEN restore_record.file_count ELSE 0]
      path == _find_backup_path(backup_id)
  IN IF success /\ integrity_checker /\ ManifestName \in DOMAIN disk[path].files
     THEN LET v == verify_backup_integrity(d.files,
                                           ManifestReadable(disk[path]),
                                           disk[path].manifest)
          IN [k \in (DOMAIN base) \cup {"integrity_check"} |->
                IF k = "integrity_check"
                THEN [valid |-> v.valid, verified_files |-> v.verified_files,
                      corrupted_files |-> Cardinality(v.corrupted_files)]
                ELSE base[k]]
     ELSE base

\* DisasterRecoveryManager.simulate_disaster_recovery(backup_id): a restore
\* into the test directory, the report, and the removal of the directory.
simulate_disaster_recovery(backup_id, cleanup) ==
  /\ LET r == Restored(backup_id, scratch, ScratchDir, "ok", {})
     IN /\ cleanup = "rm_fails" => r.dir.exists
        /\ scratch' = Cleanup(r.dir, cleanup)
        /\ result' = [op |-> "drill", raised |-> FALSE,
                      record |-> test_results(backup_id, r.ok, r.record, r.dir)]
  /\ UNCHANGED <<engine, now, source, disk, backup_history, history_file, dest>>

\* size_bytes / (1024 * 1024): a quotient, kept as numerator and denominator.
MiB(size_bytes) == <<size_bytes, 1024 * 1024>>

\* The entry list_available_backups makes of a history record.
AvailableEntry(backup) ==
  [id |-> backup.id, type |-> backup.type, timestamp |-> backup.timestamp,
   files |-> backup.file_count, size_mb |-> MiB(backup.size_bytes),
   source |-> backup.source]

IsCompleted(backup) == backup.status = "completed"

\* list_available_backups that lists the records of every status.
ListEveryStatus(doc) ==
  IF doc.state # "ok" THEN <<>>
  ELSE [i \in DOMAIN doc.backups |->
          [id |-> doc.backups[i].id, type |-> doc.backups[i].type,
           timestamp |-> doc.backups[i].timestamp, files |-> 0,
           size_mb |-> MiB(0), source |-> doc.backups[i].source]]

\* list_available_backups that lists only the records whose snapshot
\* directory is on disk.
ListOnDisk(doc) ==
  IF doc.state # "ok" THEN <<>>
  ELSE LET kept == SelectSeq(doc.backups,
                     LAMBDA b : IsCompleted(b)
                                  /\ _find_backup_path(b.id) # NoPath)
       IN [i \in DOMAIN kept |-> AvailableEntry(kept[i])]

\* DisasterRecoveryManager.list_available_backups over the history document
\* doc: nothing when the file is missing or json.load raises, else the
\* completed records in the order of the document.
list_available_backups(doc) ==
  IF doc.state # "ok" THEN <<>>
  ELSE LET completed == SelectSeq(doc.backups, IsCompleted)
       IN [i \in DOMAIN completed |-> AvailableEntry(completed[i])]

\* A caller lists the backups available for recovery.
ListAvailable ==
  /\ result' = [op |-> "list", raised |-> FALSE,
                backups |-> list_available_backups(history_file)]
  /\ UNCHANGED <<engine, scratch, now, source, disk, backup_history,
                 history_file, dest>>

\* A float metric is kept as the fraction <<numerator, denominator>>.
Zero == <<0, 1>>

\* seconds / 60.0
Minutes(seconds) == <<seconds, 60>>

\* max(0.0, x)
NonNegative(x) == IF x > 0 THEN x ELSE 0

RECURSIVE SumSeq(_)
SumSeq(s) == IF s = <<>> THEN 0 ELSE Head(s) + SumSeq(Tail(s))

\* s[-n:]
LastN(s, n) == IF Len(s) <= n THEN s ELSE SubSeq(s, Len(s) - n + 1, Len(s))

\* isinstance(duration, (int, float)) and duration > 0
HasPositiveDuration(backup) ==
  "duration_seconds" \in DOMAIN backup /\ backup.duration_seconds > 0

\* The metrics calculate_rpo_rto starts from, and returns when the document
\* is missing, cannot be parsed or holds no completed record.
InitialMetrics ==
  [rto_minutes |-> Zero, rpo_minutes |-> Zero,
   latest_backup_age_minutes |-> Zero, backup_frequency_minutes |-> Zero,
   analysis |-> EmptyMap]

\* The metrics of the completed records, given the recovery durations that
\* enter the mean.
MetricsOf(completed_backups, recovery_times, clock) ==
  LET latest_backup == completed_backups[Len(completed_backups)]
      latest_timestamp == fromisoformat(latest_backup.timestamp)
      rpo_seconds == clock - latest_timestamp
      first_timestamp ==
        fromisoformat(completed_backups[Len(completed_backups) - 1].timestamp)
  IN [rto_minutes |->
        IF recovery_times # <<>>
        THEN <<SumSeq(recovery_times), Len(recovery_times) * 60>>
        ELSE Zero,
      rpo_minutes |-> Minutes(NonNegative(rpo_seconds)),
      latest_backup_age_minutes |-> Minutes(NonNegative(rpo_seconds)),
      backup_frequency_minutes |->
        IF Len(completed_backups) >= 2
        THEN Minutes(NonNegative(latest_timestamp - first_timestamp))
        ELSE Zero,
      analysis |->
        [total_completed_backups |-> Len(completed_backups),
         latest_backup_type |-> latest_backup.type,
         latest_backup_id |-> latest_backup.id,
         latest_backup_files |-> latest_backup.file_count,
         latest_backup_size_mb |-> MiB(latest_backup.size_bytes)]]

\* The positive durations among the records of window.
DurationsOf(window) ==
  LET timed == SelectSeq(window, HasPositiveDuration)
  IN [i \in DOMAIN timed |-> timed[i].duration_seconds]

\* calculate_rpo_rto whose mean runs over every completed record.
MetricsOverAllCompleted(doc, clock) ==
  IF doc.state # "ok" THEN InitialMetrics
  ELSE LET completed_backups == SelectSeq(doc.backups, IsCompleted)
       IN IF completed_backups = <<>> THEN InitialMetrics
          ELSE MetricsOf(completed_backups, DurationsOf(completed_backups),
                         clock)

\* DisasterRecoveryManager.calculate_rpo_rto over the history document doc,
\* read when the clock shows `clock`.
calculate_rpo_rto(doc, clock) ==
  IF doc.state # "ok" THEN InitialMetrics
  ELSE LET completed_backups == SelectSeq(doc.backups, IsCompleted)
       IN IF completed_backups = <<>> THEN InitialMetrics
          ELSE MetricsOf(completed_backups,
                         DurationsOf(LastN(completed_backups, 5)), clock)

\* A caller asks for the recovery metrics.
CalculateMetrics ==
  /\ result' = [op |-> "metrics", raised |-> FALSE,
                metrics |-> calculate_rpo_rto(history_file, now)]
  /\ UNCHANGED <<engine, scratch, now, source, disk, backup_history,
                 history_file, dest>>

\* The directories a caller may verify against a snapshot's manifest: the
\* snapshot directory itself, or the destination it was restored into.
VerifyTargets == {"snapshot", "destination"}

\* A caller runs verify_backup_integrity(dir, <snapshot>/MANIFEST.json).
Verify(target, key) ==
  /\ key \in DOMAIN disk
  /\ target = "destination" => dest.exists
  /\ LET files == IF target = "snapshot" THEN disk[key].files ELSE dest.files
     IN result' = [op |-> "verify", raised |-> FALSE, target |-> target,
                   key |-> key,
                   report |-> verify_backup_integrity(
                                files, ManifestReadable(disk[key]),
                                disk[key].manifest)]
  /\ UNCHANGED <<engine, scratch, now, source, disk, backup_history,
                 history_file, dest>>

\* The snapshot files bit rot may hit.
Flippable == {"a"}

\* Bit rot: one byte of file p of a snapshot flips.
FlipSnapshotByte(key, p) ==
  /\ key \in DOMAIN disk
  /\ p \in DOMAIN disk[key].files
  /\ disk[key].files[p].content[1] = "data"
  /\ disk' = [disk EXCEPT ![key].files[p].content = FlipByte(@)]
  /\ result' = Idle
  /\ UNCHANGED <<engine, scratch, now, source, backup_history, history_file, dest>>

\* The user removes the restored destination directory.
RemoveDestination ==
  /\ dest.exists
  /\ dest' = [exists |-> FALSE, files |-> EmptyDir]
  /\ result' = Idle
  /\ UNCHANGED <<engine, scratch, now, source, disk, backup_history, history_file>>

\* -------------------------------------------------------- version manager
\* timedelta(days=1), in seconds.
Day == 24 * 60 * 60

\* VersionManager's default retention_policy, in days per backup type.
retention_policy == [full |-> 7, incremental |-> 1, differential |-> 3]

\* cutoff_dates[backup_type]
cutoff_dates(backup_type) == now - retention_policy[backup_type] * Day

\* The snapshot directories apply_retention_policy removes when every
\* removal succeeds, taking backup_time <= cutoff for backup_time < cutoff.
ExpiredOrAtCutoff ==
  {key \in DOMAIN disk : disk[key].ctime <= cutoff_dates(key[1])}

\* The snapshot directories apply_retention_policy tries to remove:
\* backup_time < cutoff_dates[backup_type].
Expired ==
  {key \in DOMAIN disk : disk[key].ctime < cutoff_dates(key[1])}

\* VersionManager._get_directory_size
_get_directory_size(snap) ==
  SumSizes(_get_file_list(snap.files), DOMAIN snap.files)

RECURSIVE SumDirectories(_)
SumDirectories(keys) ==
  IF keys = {} THEN 0
  ELSE LET k == CHOOSE q \in keys : TRUE
       IN _get_directory_size(disk[k]) + SumDirectories(keys \ {k})

\* stats['oldest_backup'] is None
None == <<"None">>

\* VersionManager.get_version_statistics over the snapshot directories.  The
\* first directory visited stores its creation time as an ISO string in
\* oldest_backup and newest_backup; at the second directory the datetime is
\* compared with that string, which raises TypeError out of the method.
get_version_statistics ==
  IF Cardinality(DOMAIN disk) >= 2
  THEN [raised |-> TRUE]
  ELSE [raised |-> FALSE,
        stats |->
          [total_backups |-> Cardinality(DOMAIN disk),
           by_type |-> [type \in {"full", "incremental", "differential"} |->
                          Cardinality({key \in DOMAIN disk : key[1] = type})],
           total_size_bytes |-> SumDirectories(DOMAIN disk),
           oldest_backup |->
             IF DOMAIN disk = {} THEN None
             ELSE isoformat(disk[CHOOSE key \in DOMAIN disk : TRUE].ctime),
           newest_backup |->
             IF DOMAIN disk = {} THEN None
             ELSE isoformat(disk[CHOOSE key \in DOMAIN disk : TRUE].ctime)]]

\* A caller asks for the statistics of the snapshots on disk.
Statistics ==
  /\ result' = [k \in {"op"} \cup DOMAIN get_version_statistics |->
                  IF k = "op" THEN "statistics" ELSE get_version_statistics[k]]
  /\ UNCHANGED <<engine, scratch, now, source, disk, backup_history,
                 history_file, dest>>

\* sorted(os.listdir(type_dir)): the ids of one type, which the engine names
\* after the time of the backup, in ascending order.
RECURSIVE Sorted(_)
Sorted(ids) ==
  IF ids = {} THEN <<>>
  ELSE LET first == CHOOSE i \in ids : \A j \in ids : i[2] <= j[2]
       IN <<first>> \o Sorted(ids \ {first})

\* The entry get_backup_chain appends for a snapshot directory.
ChainEntry(key) ==
  [id |-> key[2], type |-> key[1], timestamp |-> isoformat(disk[key].ctime)]

\* get_backup_chain that also takes the snapshots created at the very time
\* of the full one.
ChainSinceOrAt(full_backup_id) ==
  IF <<"full", full_backup_id>> \notin DOMAIN disk THEN <<>>
  ELSE LET full_time == disk[<<"full", full_backup_id>>].ctime
           later(type) ==
             SelectSeq(Sorted({key[2] : key \in {k \in DOMAIN disk :
                                                   k[1] = type}}),
                       LAMBDA id : disk[<<type, id>>].ctime >= full_time)
           entries(type) ==
             [i \in DOMAIN later(type) |-> ChainEntry(<<type, later(type)[i]>>)]
       IN <<ChainEntry(<<"full", full_backup_id>>)>>
            \o entries("incremental") \o entries("differential")

\* VersionManager.get_backup_chain: nothing when getctime of the full
\* snapshot directory raises; else the full snapshot, then the incremental
\* and then the differential snapshots created after it, each type in the
\* order of its sorted ids.
get_backup_chain(full_backup_id) ==
  IF <<"full", full_backup_id>> \notin DOMAIN disk THEN <<>>
  ELSE LET full_time == disk[<<"full", full_backup_id>>].ctime
           later(type) ==
             SelectSeq(Sorted({key[2] : key \in {k \in DOMAIN disk :
                                                   k[1] = type}}),
                       LAMBDA id : disk[<<type, id>>].ctime > full_time)
           entries(type) ==
             [i \in DOMAIN later(type) |-> ChainEntry(<<type, later(type)[i]>>)]
       IN <<ChainEntry(<<"full", full_backup_id>>)>>
            \o entries("incremental") \o entries("differential")

\* A caller asks for the chain of a full backup.
BackupChain(full_backup_id) ==
  /\ result' = [op |-> "chain_of", raised |-> FALSE,
                full_backup_id |-> full_backup_id,
                chain |-> get_backup_chain(full_backup_id)]
  /\ UNCHANGED <<engine, scratch, now, source, disk, backup_history,
                 history_file, dest>>

\* VersionManager.apply_retention_policy.  stuck: the expired snapshot
\* directories whose rmtree raises; the error is logged and the directory is
\* neither counted nor removed.
apply_retention_policy(stuck) ==
  /\ stuck \subseteq Expired
  /\ LET removed == Expired \ stuck
         deleted(type) == Cardinality({key \in removed : key[1] = type})
     IN /\ disk' = [key \in (DOMAIN disk) \ removed |-> disk[key]]
        /\ result' =
             [op |-> "retention", raised |-> FALSE,
              record |->
                [full_backups_deleted |-> deleted("full"),
                 incremental_backups_deleted |-> deleted("incremental"),
                 differential_backups_deleted |-> deleted("differential"),
                 total_space_freed_bytes |-> SumDirectories(removed)]]
  /\ UNCHANGED <<engine, scratch, now, source, backup_history, history_file,
                 dest>>

\* Days pass with the backup system idle: as many as one of the policy's
\* periods.
Elapse(days) ==
  /\ now <= MaxTime
  /\ now' = now + days * Day
  /\ result' = Idle
  /\ UNCHANGED <<engine, scratch, source, disk, backup_history, history_file,
                 dest>>

\* Days have passed since the backups were taken.
Aged == now > MaxTime

\* ------------------------------------------------- scheduler and GUI threads
\* threads.loops[t] is where the t-th scheduler thread stands in
\* _run_scheduler: "test" (the while condition), "pending" (in run_pending, no
\* job started), "job" (in run_pending, inside a job's full_backup) or "done"
\* (returned).  threads.gui is what the GUI thread is inside of.
GuiOperations == {"full", "incremental", "differential", "delete_all"}

\* The threads inside a method of the shared BackupEngine.
Executing ==
  {t \in DOMAIN threads.loops : threads.loops[t] = "job"}
    \cup (IF threads.gui \in GuiOperations THEN {0} ELSE {})

\* The scheduler threads inside schedule.run_pending().
InRunPending ==
  {t \in DOMAIN threads.loops : threads.loops[t] \in {"pending", "job"}}

\* What a step of a thread outside the engine leaves alone.
OutsideEngine ==
  /\ result' = Idle
  /\ faults' = faults
  /\ UNCHANGED <<engine, scratch, now, source, disk, backup_history,
                 history_file, dest>>

\* BackupScheduler.start_scheduler, called on the GUI thread.
start_scheduler ==
  /\ threads.gui = "idle"
  /\ threads' = IF threads.is_running THEN threads
                ELSE [threads EXCEPT !.is_running = TRUE,
                                     !.loops = Append(@, "test")]
  /\ OutsideEngine

\* BackupScheduler.stop_scheduler up to the join: the flag is cleared and the
\* caller waits for scheduler_thread, the thread started last.
stop_scheduler ==
  /\ threads.gui = "idle"
  /\ threads' = [threads EXCEPT !.is_running = FALSE,
                                !.gui = IF threads.loops = <<>> THEN "idle"
                                        ELSE "join"]
  /\ OutsideEngine

\* scheduler_thread.join(timeout=5) returns: the thread has ended, or it is
\* inside a job that takes longer than the five seconds.
JoinReturns ==
  /\ threads.gui = "join"
  /\ threads.loops[Len(threads.loops)] \in {"done", "job"}
  /\ threads' = [threads EXCEPT !.gui = "idle"]
  /\ OutsideEngine

\* _run_scheduler: while self.is_running
LoopTest(t) ==
  /\ threads.loops[t] = "test"
  /\ threads' = [threads EXCEPT
                   !.loops[t] = IF threads.is_running THEN "pending"
                                ELSE "done"]
  /\ OutsideEngine

\* _run_scheduler: run_pending() finds no job due, and sleep(1).
NothingPending(t) ==
  /\ threads.loops[t] = "pending"
  /\ threads' = [threads EXCEPT !.loops[t] = "test"]
  /\ OutsideEngine

\* run_pending() starts a due job, which calls backup_engine.full_backup.
JobStarts(t) ==
  /\ threads.loops[t] = "pending"
  /\ threads' = [threads EXCEPT !.loops[t] = "job"]
  /\ OutsideEngine

\* The job's full_backup returns, then sleep(1).
JobReturns(t) ==
  /\ threads.loops[t] = "job"
  /\ \E id \in BackupIds("full") : full_backup(id, "none", "a")
  /\ faults' = faults
  /\ threads' = [threads EXCEPT !.loops[t] = "test"]

\* A button handler of the GUI calls a method of the engine.
GuiCalls(op) ==
  /\ threads.gui = "idle"
  /\ threads' = [threads EXCEPT !.gui = op]
  /\ OutsideEngine

\* The method the GUI thread called returns.
GuiReturns ==
  /\ threads.gui \in GuiOperations
  /\ \/ /\ threads.gui = "full"
        /\ \E id \in BackupIds("full") : full_backup(id, "none", "a")
     \/ /\ threads.gui = "incremental"
        /\ \E id \in BackupIds("incremental") :
             incremental_backup(id, "none", "a")
     \/ /\ threads.gui = "differential"
        /\ \E id \in BackupIds("differential") :
             differential_backup(id, "none", "a")
     \/ /\ threads.gui = "delete_all"
        /\ delete_all_backups("none", TRUE)
  /\ faults' = faults
  /\ threads' = [threads EXCEPT !.gui = "idle"]

\* ------------------------------------------------------------ specification
\* The file a faulty copy fails on.
BadFiles == {"a"}

\* The sets of files whose copy a restore may fail on for good: none, one,
\* or all of them.
Failing(backup_id) ==
  IF _find_backup_path(backup_id) = NoPath THEN {}
  ELSE {{"a"} \cap Restorable(disk[_find_backup_path(backup_id)]),
        Restorable(disk[_find_backup_path(backup_id)])} \ {{}}

Range(seq) == {seq[i] : i \in DOMAIN seq}

\* A step no I/O fault hits, and one of the at most MaxFaults steps one hits.
Clean(A) == A /\ faults' = faults /\ threads' = threads
Hit(A) ==
  faults < MaxFaults /\ faults' = faults + 1 /\ threads' = threads /\ A

\* The three backup methods, at most limit records in the history.
Backups(limit) ==
  /\ engine = "up"
  /\ Len(backup_history) < limit
  /\ \/ \E id \in BackupIds("full") :
          \/ Clean(full_backup(id, "none", "a"))
          \/ \E fault \in Faults \ {"none"}, bad \in BadFiles :
               Hit(full_backup(id, fault, bad))
     \/ \E id \in BackupIds("incremental") :
          \/ Clean(incremental_backup(id, "none", "a"))
          \/ \E fault \in Faults \ {"none"}, bad \in BadFiles :
               Hit(incremental_backup(id, fault, bad))
     \/ \E id \in BackupIds("differential") :
          \/ Clean(differential_backup(id, "none", "a"))
          \/ \E fault \in Faults \ {"none"}, bad \in BadFiles :
               Hit(differential_backup(id, fault, bad))

\* Time and the source tree move on.
Environment ==
  \/ Clean(Tick)
  \/ \E p \in Changing : Clean(WriteFile(p))
  \/ \E p \in Changing : Clean(DeleteFile(p))

\* Recovery, started in any state the backups reach: a snapshot at rest may
\* rot, and snapshots are restored into the destination.
Recover ==
  \/ \E key \in DOMAIN disk, p \in Flippable :
       /\ ~dest.exists
       /\ Hit(FlipSnapshotByte(key, p))
  \/ \E id \in RestoreIds :
       \/ Clean(restore_from_backup(id, "ok", {}))
       \/ \E failing \in Failing(id) : Hit(restore_from_backup(id, "ok", failing))
       \/ \E env \in RestoreEnv \ {"ok"} : Hit(restore_from_backup(id, env, {}))
  \/ Clean(RemoveDestination)

\* Some snapshot file has rotted.
Rotten ==
  \E key \in DOMAIN disk : \E p \in DOMAIN disk[key].files :
    disk[key].files[p].content[1] = "flipped"

\* The backup root is explored while recovery has not begun: the backup
\* methods neither read nor write the destination.
Capturing == ~dest.exists /\ ~Rotten

Next ==
  \/ Capturing /\ Environment
  \/ Capturing /\ Backups(MaxHistory)
  \/ Recover

Spec == Init /\ [][Next]_vars

\* The backup engine alone.
NextCapture == Environment \/ Backups(MaxHistory)

SpecCapture == Init /\ [][NextCapture]_vars

\* The backup engine alone, with room for one more record.
NextLongCapture == Environment \/ Backups(MaxHistory + 1)

SpecLongCapture == Init /\ [][NextLongCapture]_vars

\* Recovery from a history one record shorter.
NextShort ==
  \/ Capturing /\ Environment
  \/ Capturing /\ Backups(MaxHistory - 1)
  \/ Recover

SpecShort == Init /\ [][NextShort]_vars

\* Chain restores of what the backups captured, into a destination that
\* does not exist yet.
Chains ==
  ~dest.exists /\ \E full_id \in RestoreIds, inc_ids \in ChainLists :
    \/ Clean(restore_incremental_chain(full_id, inc_ids, {}))
    \/ Hit(restore_incremental_chain(full_id, inc_ids, {"b"}))

NextChain ==
  \/ Capturing /\ Environment
  \/ Capturing /\ Backups(MaxHistory)
  \/ Chains

SpecChain == Init /\ [][NextChain]_vars

\* Recovery drills over what the backups captured, from a history one record
\* shorter.
Drills ==
  \E id \in RestoreIds :
    \/ Clean(simulate_disaster_recovery(id, "ok"))
    \/ Hit(simulate_disaster_recovery(id, "rm_fails"))

NextDrill ==
  \/ Environment
  \/ Backups(MaxHistory - 1)
  \/ Drills

SpecDrill == Init /\ [][NextDrill]_vars

\* Retention over what the backups captured, days later.
Retention ==
  \/ Clean(apply_retention_policy({}))
  \/ \E key \in DOMAIN disk : Hit(apply_retention_policy({key}))

Waiting ==
  \E type \in DOMAIN retention_policy : Clean(Elapse(retention_policy[type]))

NextRetention ==
  \/ ~Aged /\ Environment
  \/ ~Aged /\ Backups(MaxHistory)
  \/ Waiting
  \/ Retention

SpecRetention == Init /\ [][NextRetention]_vars

\* Listing, restoring and rehearsing after retention has pruned snapshots of
\* a history one record shorter.
NextPruned ==
  \/ ~Aged /\ Environment
  \/ ~Aged /\ Backups(MaxHistory - 1)
  \/ Waiting
  \/ Retention
  \/ Clean(ListAvailable)
  \/ \E id \in RestoreIds \cup {b.id : b \in Range(backup_history)} :
       \/ ~dest.exists /\ Clean(restore_from_backup(id, "ok", {}))
       \/ Clean(simulate_disaster_recovery(id, "ok"))

SpecPruned == Init /\ [][NextPruned]_vars

\* Verification of snapshots and of restored destinations, from a history
\* one record shorter.
NextVerify ==
  \/ Capturing /\ Environment
  \/ Capturing /\ Backups(MaxHistory - 1)
  \/ Recover
  \/ \E target \in VerifyTargets, key \in DOMAIN disk :
       Clean(Verify(target, key))

SpecVerify == Init /\ [][NextVerify]_vars

\* The backup engine, constructed again between backups.
NextRestart == Environment \/ Backups(MaxHistory) \/ Clean(Restart)

SpecRestart == Init /\ [][NextRestart]_vars

\* The backup engine and the statistics of what it has written.
NextStatistics == Environment \/ Backups(MaxHistory) \/ Clean(Statistics)

SpecStatistics == Init /\ [][NextStatistics]_vars

\* The backup engine with room for one more record, and the chains of what
\* it has written.
NextChainOf ==
  \/ Environment
  \/ Backups(MaxHistory + 1)
  \/ \E full_backup_id \in RestoreIds : Clean(BackupChain(full_backup_id))

SpecChainOf == Init /\ [][NextChainOf]_vars

\* The backup engine and the listing of what it has recorded.
NextListing == Environment \/ Backups(MaxHistory) \/ Clean(ListAvailable)

SpecListing == Init /\ [][NextListing]_vars

\* The shipped composition: the GUI thread and the scheduler's threads over
\* one engine.  A backup starts only while the history has room for its
\* record.
NextThreads ==
  \/ Clean(Tick)
  \/ Len(threads.loops) < MaxThreads /\ start_scheduler
  \/ threads.is_running /\ start_scheduler
  \/ stop_scheduler
  \/ JoinReturns
  \/ \E t \in DOMAIN threads.loops :
       \/ LoopTest(t)
       \/ NothingPending(t)
       \/ /\ Len(backup_history) + Cardinality(Executing) < MaxHistory
          /\ JobStarts(t)
       \/ JobReturns(t)
  \/ \E op \in GuiOperations :
       /\ op # "delete_all" =>
            Len(backup_history) + Cardinality(Executing) < MaxHistory
       /\ GuiCalls(op)
  \/ GuiReturns

SpecThreads == Init /\ [][NextThreads]_vars

\* The times copy2 may raise on one file: never, twice, or more often than
\* the loop retries.
Raises == {0, 2, 3, 4}

\* Restores whose copies raise, from a history one record shorter.
NextRetry ==
  \/ Capturing /\ Environment
  \/ Capturing /\ Backups(MaxHistory - 1)
  \/ \E key \in DOMAIN disk :
       \E raises \in [Restorable(disk[key]) -> Raises] :
         \/ (\A p \in DOMAIN raises : raises[p] = 0)
              /\ Clean(RestoreRetrying(key[2], raises))
         \/ (\E p \in DOMAIN raises : raises[p] > 0)
              /\ Hit(RestoreRetrying(key[2], raises))

SpecRetry == Init /\ [][NextRetry]_vars

\* The backup engine with its delete_all_backups.
NextDelete ==
  \/ Environment
  \/ Backups(MaxHistory)
  \/ engine = "up" /\ Clean(delete_all_backups("none", TRUE))
  \/ engine = "up" /\ Hit(delete_all_backups("backups", FALSE))
  \/ engine = "up" /\ \E gone \in BOOLEAN :
                        Hit(delete_all_backups("metadata", gone))

SpecDelete == Init /\ [][NextDelete]_vars

\* Retention applied while backups go on after the days have passed.
NextAging ==
  \/ ~Aged /\ Environment
  \/ Backups(MaxHistory)
  \/ Waiting
  \/ Retention

SpecAging == Init /\ [][NextAging]_vars

\* ------------------------------------------------- metrics over documents
\* Seconds a recorded backup took, between its two reads of the clock.
Durations == {0, 40, 100}

\* Seconds between the end of a backup and the start of the next.
Gaps == {0, 90}

\* Seconds between the end of the last backup and the call of
\* calculate_rpo_rto.
Delay == 45

\* When the last backup returned.
LastReturn ==
  IF backup_history = <<>> THEN 0
  ELSE LET last == backup_history[Len(backup_history)]
       IN last.timestamp + (IF IsCompleted(last) THEN last.duration_seconds
                            ELSE 0)

\* A full backup as calculate_rpo_rto sees it: it starts a gap after the
\* backup before it, takes duration seconds, appends its record, completed
\* with the duration or failed, and saves the history.
RecordedRun(status, duration, gap) ==
  /\ Len(backup_history) < MaxRecords
  /\ history_file.state # "corrupt"
  /\ now = LastReturn
  /\ LET md == [id |-> <<"run", Len(backup_history) + 1>>, type |-> "full",
                timestamp |-> now + gap, source |-> SourceDir,
                status |-> "in_progress"]
         record ==
           IF status = "completed"
           THEN [id |-> md.id, type |-> md.type, timestamp |-> md.timestamp,
                 source |-> md.source, status |-> "completed",
                 file_count |-> 0, size_bytes |-> 0,
                 duration_seconds |-> duration]
           ELSE Failed(md, "copy")
     IN /\ backup_history' = Append(backup_history, record)
        /\ history_file' = _save_history(backup_history')
        /\ now' = now + gap + (IF status = "completed" THEN duration ELSE 0)
  /\ result' = Idle
  /\ UNCHANGED <<engine, scratch, source, disk, dest>>

\* A save of the history that raised after truncating the document.
TruncatedSave ==
  /\ history_file.state = "ok"
  /\ now = LastReturn
  /\ history_file' = FailedSave
  /\ result' = Idle
  /\ UNCHANGED <<engine, scratch, now, source, disk, backup_history, dest>>

\* Time passes after the last backup.
Pause ==
  /\ now = LastReturn
  /\ now' = now + Delay
  /\ result' = Idle
  /\ UNCHANGED <<engine, scratch, source, disk, backup_history, history_file,
                 dest>>

NextMetrics ==
  \/ \E duration \in Durations, gap \in Gaps :
       Clean(RecordedRun("completed", duration, gap))
  \/ \E gap \in Gaps : Clean(RecordedRun("failed", 0, gap))
  \/ Clean(TruncatedSave)
  \/ Clean(Pause)
  \/ Clean(CalculateMetrics)

SpecMetrics == Init /\ [][NextMetrics]_vars

\* ------------------------------------------------------------------ claims
BackupOps == {"full", "incremental", "differential"}

\* A backup method has just returned ok.
Returned(op) == result.op = op /\ ~result.raised /\ result.ok

\* The history as it was when the backup that has just returned ok began.
PreHistory == SubSeq(backup_history, 1, Len(backup_history) - 1)

CompletedFulls(h) ==
  {i \in DOMAIN h : h[i].type = "full" /\ h[i].status = "completed"}

\* The snapshot a restore that has just returned read from.
RestoredPath == _find_backup_path(result.record.backup_id)

\* C1: after a full backup that returned ok, every file of the source tree
\* is in the snapshot directory at its relative path with its content, and
\* verifying the snapshot against the manifest the backup wrote reports
\* valid with no corrupted and no missing file.
C1_FullBackupVerifies ==
  Returned("full") =>
    LET snap == disk[<<"full", result.record.id>>]
        v == verify_backup_integrity(snap.files, ManifestReadable(snap),
                                     snap.manifest)
    IN /\ \A p \in DOMAIN source :
            p \in DOMAIN snap.files /\ snap.files[p].content = source[p].content
       /\ v.valid
       /\ v.corrupted_files = {}
       /\ v.missing_files = {}

\* C2: an incremental backup that returned ok copied exactly the files of
\* the source tree modified strictly after the baseline B that
\* _get_last_backup_time gave when it was called; its record's files map and
\* file_count describe exactly that set, which is empty when nothing changed
\* since B.
C2_IncrementalCopiesChanged ==
  Returned("incremental") =>
    LET B == _get_last_backup_time(PreHistory, now)
        S == {p \in DOMAIN source : source[p].modified > B}
        rec == result.record
        snap == disk[<<"incremental", rec.id>>]
    IN /\ DOMAIN rec.files = S
       /\ rec.file_count = Cardinality(S)
       /\ \A p \in S : rec.files[p].modified = source[p].modified
       /\ (DOMAIN snap.files) \ {ManifestName} = S \ {ManifestName}
       /\ \A p \in S \ {ManifestName} : snap.files[p] = source[p]
       /\ (\A p \in DOMAIN source : source[p].modified <= B) =>
            rec.file_count = 0

\* C2's case: after a completed full backup of a tree holding a and b, only
\* b was modified, and the incremental record holds b alone.
C2_Witness ==
  /\ Returned("incremental")
  /\ CompletedFulls(PreHistory) # {}
  /\ {"a", "b"} \subseteq DOMAIN source
  /\ result.record.file_count = 1
  /\ DOMAIN result.record.files = {"b"}

\* C3 (as amended): when a completed full backup exists, a differential that
\* returned ok used the timestamp of the most recent one as its baseline,
\* whatever was recorded after it; so it holds every file of an earlier
\* differential taken since that full which is still in the source tree,
\* modified after the full.
C3_DifferentialBaseline ==
  Returned("differential") =>
    (CompletedFulls(PreHistory) # {} =>
       LET last == Max(CompletedFulls(PreHistory))
           T == PreHistory[last].timestamp
           rec == result.record
       IN /\ DOMAIN rec.files =
               {p \in DOMAIN source : source[p].modified > T}
          /\ \A i \in DOMAIN PreHistory :
               (i > last /\ PreHistory[i].type = "differential"
                  /\ PreHistory[i].status = "completed") =>
                 \A p \in DOMAIN PreHistory[i].files :
                   (p \in DOMAIN source /\ source[p].modified > T) =>
                     p \in DOMAIN rec.files)

\* C3 (as claimed): of two differentials with no full backup between them,
\* the second one's file set is the first one's or a superset of it.
C3_SecondIsSuperset ==
  Returned("differential") =>
    (CompletedFulls(PreHistory) # {} =>
       \A i \in DOMAIN PreHistory :
         (i > Max(CompletedFulls(PreHistory))
            /\ PreHistory[i].type = "differential"
            /\ PreHistory[i].status = "completed") =>
           DOMAIN PreHistory[i].files \subseteq DOMAIN result.record.files)

\* C3's case: a full backup, then two differentials with b modified since
\* the full; both hold b.
C3_Witness ==
  /\ Returned("differential")
  /\ CompletedFulls(PreHistory) # {}
  /\ \E i \in DOMAIN PreHistory :
       /\ i > Max(CompletedFulls(PreHistory))
       /\ PreHistory[i].type = "differential"
       /\ PreHistory[i].status = "completed"
       /\ DOMAIN PreHistory[i].files = {"b"}
  /\ DOMAIN result.record.files = {"b"}

\* C4: after a backup call, however it ended, the history in memory and the
\* persisted document both hold a record of the attempt with its id and its
\* final status, with the error when it failed.
C4_NoAttemptLost ==
  result.op \in BackupOps =>
    LET id == IF result.raised THEN result.id ELSE result.record.id
        Kept(b) ==
          /\ b.id = id
          /\ b.status \in {"completed", "failed"}
          /\ ~result.raised => b.status = result.record.status
          /\ b.status = "failed" => "error" \in DOMAIN b
    IN /\ \E i \in DOMAIN backup_history : Kept(backup_history[i])
       /\ history_file.state = "ok"
       /\ \E j \in DOMAIN history_file.backups : Kept(history_file.backups[j])

\* C5: a backup or restore entry point never raises; it returns (ok, record)
\* where ok = false goes with status 'failed' and an error.
C5_NeverRaises ==
  result.op \in BackupOps \cup {"restore"} =>
    /\ ~result.raised
    /\ ~result.ok => /\ result.record.status = "failed"
                     /\ "error" \in DOMAIN result.record

\* C6: the history document holds at most one record for any id.
C6_UniqueIds ==
  history_file.state = "ok" =>
    \A i, j \in DOMAIN history_file.backups :
      i # j => history_file.backups[i].id # history_file.backups[j].id

\* C7: after restoring an unmodified full snapshot that has a manifest (the
\* restore returned ok and no copy failed), verifying the destination against
\* the snapshot's manifest finds every manifest entry: verified_files equals
\* total_files.
C7_RoundTrip ==
  (result.op = "restore" /\ result.ok /\ result.record.errors = {}
     /\ RestoredPath[1] = "full" /\ ManifestReadable(disk[RestoredPath])
     /\ ~Rotten) =>
    LET v == verify_backup_integrity(dest.files, TRUE,
                                     disk[RestoredPath].manifest)
    IN v.verified_files = v.total_files

\* C8: when the snapshot has a manifest, a restore that ends 'completed' left
\* every file the manifest lists in the destination with the listed hash, and
\* a destination that misses a listed file or holds one with another hash
\* ends the restore 'completed_with_warnings'.
C8_DestinationVerified ==
  (result.op = "restore" /\ "error" \notin DOMAIN result.record
     /\ ManifestReadable(disk[RestoredPath])) =>
    LET v == verify_backup_integrity(dest.files, TRUE,
                                     disk[RestoredPath].manifest)
    IN /\ result.record.status = "completed" => v.valid
       /\ ~v.valid => result.record.status = "completed_with_warnings"

\* C9: the final status of a restore is 'failed' when an exception occurred
\* or no file was copied, 'completed_with_warnings' when files were copied
\* and verification failed, and 'completed' otherwise.
C9_FinalStatus ==
  result.op = "restore" =>
    LET r == result.record
    IN IF "error" \in DOMAIN r THEN r.status = "failed"
       ELSE r.status =
              IF r.file_count = 0 THEN "failed"
              ELSE IF verification_passed(RestoredPath, r.file_count)
              THEN "completed"
              ELSE "completed_with_warnings"

\* C10: restoring an id that is under none of the three type directories
\* returns ok = false and a record with status 'failed' whose error names the
\* id.
C10_UnknownIdFails ==
  (result.op = "restore" /\ RestoredPath = NoPath) =>
    /\ ~result.raised
    /\ ~result.ok
    /\ result.record.status = "failed"
    /\ result.record.error[2] = result.record.backup_id

\* C10's case: a restore of an id no snapshot directory carries, while
\* snapshots of other ids exist.
C10_Witness ==
  /\ result.op = "restore"
  /\ RestoredPath = NoPath
  /\ DOMAIN disk # {}
  /\ result.record.status = "failed"
  /\ result.record.error = NotFound(<<"does-not-exist", 0>>)

\* The snapshots a chain restore that has just returned was given, in order.
ChainKeys ==
  [i \in 1..(1 + Len(result.call.incremental_backup_ids)) |->
     _find_backup_path(IF i = 1 THEN result.call.full_backup_id
                       ELSE result.call.incremental_backup_ids[i - 1])]

\* C11: after a chain restore of a full snapshot and distinct incremental
\* snapshots that returned ok, every path held by several of these snapshots (the
\* manifest document apart) is in the destination with the version of the
\* last snapshot, in the order the caller gave, that holds it.
C11_LastWriterWins ==
  (result.op = "chain" /\ result.ok
     /\ ChainKeys[1][1] = "full"
     /\ (\A k \in DOMAIN ChainKeys : k > 1 => ChainKeys[k][1] = "incremental")
     /\ (\A i, j \in DOMAIN ChainKeys : i # j => ChainKeys[i] # ChainKeys[j])) =>
    \A p \in Paths \ {ManifestName} :
      LET holders == {i \in DOMAIN ChainKeys : p \in DOMAIN disk[ChainKeys[i]].files}
      IN Cardinality(holders) >= 2 =>
           /\ p \in DOMAIN dest.files
           /\ dest.files[p] = disk[ChainKeys[Max(holders)]].files[p]

\* A step of simulate_disaster_recovery.
DrillStep == result'.op = "drill"

\* C12 (as amended): a drill leaves the history, in memory and persisted, and
\* every snapshot directory as they were, whatever the restore inside it did;
\* and when it returns the test directory does not exist, unless its removal
\* failed - that error is ignored and the directory stays.
C12_DrillLeavesNoTrace ==
  [][DrillStep =>
       /\ disk' = disk
       /\ history_file' = history_file
       /\ backup_history' = backup_history
       /\ faults' = faults => ~scratch'.exists]_vars

\* C12 (as claimed): after a drill the test directory does not exist and the
\* history and the snapshots are unchanged, on every path.
C12_NeverResidue ==
  [][DrillStep =>
       /\ disk' = disk
       /\ history_file' = history_file
       /\ backup_history' = backup_history
       /\ ~scratch'.exists]_vars

\* C12's case: a drill of an existing snapshot passed, with the restored
\* files verified against the manifest, and the test directory is gone.
C12_Witness ==
  /\ result.op = "drill"
  /\ result.record.status = "passed"
  /\ result.record.file_count > 0
  /\ "integrity_check" \in DOMAIN result.record
  /\ result.record.integrity_check.valid
  /\ ~scratch.exists
  /\ disk # << >>

\* A step of apply_retention_policy.
RetentionStep == result'.op = "retention"

\* The snapshot directories of one type a retention step removed.
Pruned(type) == {key \in (DOMAIN disk) \ (DOMAIN disk') : key[1] = type}

\* The per-type counts a retention step returned are the numbers of
\* directories it removed.
CountsMatch ==
  /\ result'.record.full_backups_deleted = Cardinality(Pruned("full"))
  /\ result'.record.incremental_backups_deleted
       = Cardinality(Pruned("incremental"))
  /\ result'.record.differential_backups_deleted
       = Cardinality(Pruned("differential"))

StaleIds ==
  {b.id : b \in {r \in Range(history_file.backups) : IsCompleted(r)}}
    \ {key[2] : key \in DOMAIN disk}

\* C14: apply_retention_policy leaves the history, in memory and persisted,
\* as it was, so list_available_backups still returns the completed record
\* of a pruned snapshot; restoring or rehearsing such an id returns a
\* not-found failure (ok = false, status 'failed') and raises nothing.
C14_PrunedStaysListed ==
  /\ [][RetentionStep =>
          history_file' = history_file /\ backup_history' = backup_history]_vars
  /\ [](/\ result.op = "list" =>
             \A id \in StaleIds :
               \E i \in DOMAIN result.backups : result.backups[i].id = id
        /\ (result.op = "restore" /\ result.record.backup_id \in StaleIds) =>
             /\ ~result.raised
             /\ ~result.ok
             /\ result.record.status = "failed"
             /\ result.record.error = NotFound(result.record.backup_id)
        /\ (result.op = "drill" /\ result.record.backup_id \in StaleIds) =>
             /\ ~result.raised
             /\ result.record.status = "failed"
             /\ ~result.record.recovery_successful)

\* C14's case: retention has pruned the snapshot of a completed backup, and
\* a restore of its id has just failed as not found while the history
\* document still holds its record.
C14_Witness ==
  /\ result.op = "restore"
  /\ result.record.backup_id \in StaleIds
  /\ result.record.status = "failed"
  /\ history_file.state = "ok"
  /\ Aged

\* The directory a verification that has just returned looked into.
VerifiedFiles ==
  IF result.target = "snapshot" THEN disk[result.key].files ELSE dest.files

\* The report's three classes add up to the entries of the manifest.
ClassesAddUp ==
  result.report.verified_files + Cardinality(result.report.corrupted_files)
    + Cardinality(result.report.missing_files) = result.report.total_files

CompletedAt == {i \in DOMAIN history_file.backups :
                  history_file.backups[i].status = "completed"}

\* The last five completed records.
LastFive == {i \in CompletedAt :
               Cardinality({j \in CompletedAt : j >= i}) <= 5}

RECURSIVE TotalDuration(_)
TotalDuration(S) ==
  IF S = {} THEN 0
  ELSE LET i == CHOOSE j \in S : TRUE
       IN history_file.backups[i].duration_seconds + TotalDuration(S \ {i})

\* Two fractions are the same number.
SameNumber(x, y) == x[1] * y[2] = y[1] * x[2]

StampAt(i) == fromisoformat(history_file.backups[i].timestamp)

\* C16: calculate_rpo_rto returns all-zero metrics when the document holds
\* no completed record (or cannot be read); otherwise rpo_minutes is
\* max(0, minutes from the most recent completed record to now), rto_minutes
\* is the mean of duration_seconds / 60 over those of the last five
\* completed records that have a positive duration (0 when none has), and
\* backup_frequency_minutes is the minutes between the two most recent
\* completed records (0 when there is only one); none is negative.
C16_MetricsReference ==
  result.op = "metrics" =>
    LET m == result.metrics
        timed == {i \in LastFive :
                    history_file.backups[i].duration_seconds > 0}
    IN /\ ~result.raised
       /\ \A k \in {"rpo_minutes", "rto_minutes", "backup_frequency_minutes"} :
            m[k][1] >= 0 /\ m[k][2] > 0
       /\ IF history_file.state # "ok" \/ CompletedAt = {}
          THEN /\ m.rpo_minutes[1] = 0
               /\ m.rto_minutes[1] = 0
               /\ m.backup_frequency_minutes[1] = 0
               /\ m.latest_backup_age_minutes[1] = 0
          ELSE /\ SameNumber(m.rpo_minutes,
                    <<NonNegative(now - StampAt(Max(CompletedAt))), 60>>)
               /\ IF timed = {} THEN m.rto_minutes[1] = 0
                  ELSE SameNumber(m.rto_minutes,
                         <<TotalDuration(timed), 60 * Cardinality(timed)>>)
               /\ IF Cardinality(CompletedAt) < 2
                  THEN m.backup_frequency_minutes[1] = 0
                  ELSE SameNumber(m.backup_frequency_minutes,
                         <<StampAt(Max(CompletedAt))
                             - StampAt(Max(CompletedAt \ {Max(CompletedAt)})),
                           60>>)

\* C16's case: more than five completed records, the oldest of them slow and
\* outside the mean, one of the last five with no positive duration, and a
\* positive age, mean and frequency.
C16_Witness ==
  /\ result.op = "metrics"
  /\ history_file.state = "ok"
  /\ Cardinality(CompletedAt) > 5
  /\ \E i \in CompletedAt \ LastFive :
       history_file.backups[i].duration_seconds = 100
  /\ \E i \in LastFive : history_file.backups[i].duration_seconds = 0
  /\ \E i \in LastFive : history_file.backups[i].duration_seconds = 40
  /\ \A i \in LastFive : history_file.backups[i].duration_seconds < 100
  /\ SameNumber(result.metrics.rto_minutes, <<40, 60>>)
  /\ result.metrics.rpo_minutes[1] > Delay
  /\ result.metrics.backup_frequency_minutes[1] > 0

\* C17: constructing the engine never fails: after the history is loaded the
\* engine is usable, and when the document could not be read or parsed the
\* history it holds is empty.
C17_LoadNeverFails ==
  result.op = "load" =>
    /\ ~result.raised
    /\ engine = "up"
    /\ history_file.state # "ok" => backup_history = <<>>

\* C18: get_version_statistics returns, whatever the number of snapshot
\* directories, total_backups equal to that number and to the sum of
\* by_type, total_size_bytes equal to the sum of the directories' sizes, and
\* oldest_backup and newest_backup equal to the least and the greatest
\* directory creation time.
C18_StatisticsOfAnyNumber ==
  result.op = "statistics" =>
    /\ ~result.raised
    /\ result.stats.total_backups = Cardinality(DOMAIN disk)
    /\ result.stats.total_backups =
         result.stats.by_type["full"] + result.stats.by_type["incremental"]
           + result.stats.by_type["differential"]
    /\ result.stats.total_size_bytes = SumDirectories(DOMAIN disk)
    /\ DOMAIN disk # {} =>
         /\ \A key \in DOMAIN disk :
              fromisoformat(result.stats.oldest_backup) <= disk[key].ctime
         /\ \A key \in DOMAIN disk :
              fromisoformat(result.stats.newest_backup) >= disk[key].ctime

\* The snapshot directories created strictly after the full snapshot whose
\* chain has just been returned.
CreatedAfterFull ==
  {key \in DOMAIN disk :
     /\ key[1] \in {"incremental", "differential"}
     /\ disk[key].ctime > disk[<<"full", result.full_backup_id>>].ctime}

\* C19: get_backup_chain(fullId) returns the full snapshot first, then every
\* incremental and differential snapshot whose directory was created
\* strictly after the full snapshot's, once each, and no snapshot created at
\* or before it.
C19_ChainAfterFull ==
  (result.op = "chain_of"
     /\ <<"full", result.full_backup_id>> \in DOMAIN disk) =>
    /\ ~result.raised
    /\ Len(result.chain) = 1 + Cardinality(CreatedAfterFull)
    /\ result.chain[1].id = result.full_backup_id
    /\ result.chain[1].type = "full"
    /\ {<<result.chain[i].type, result.chain[i].id>> :
          i \in 2..Len(result.chain)} = CreatedAfterFull

\* C19's case: the chain of a full snapshot holds a snapshot created after
\* it, and leaves out one created at the time of the full snapshot.
C19_Witness ==
  /\ result.op = "chain_of"
  /\ <<"full", result.full_backup_id>> \in DOMAIN disk
  /\ Len(result.chain) = 2
  /\ \E key \in DOMAIN disk :
       /\ key[1] # "full"
       /\ disk[key].ctime = disk[<<"full", result.full_backup_id>>].ctime

\* The position in the history document of its i-th completed record.
CompletedPosition(i) ==
  CHOOSE p \in CompletedAt : Cardinality({q \in CompletedAt : q <= p}) = i

\* C20: list_available_backups does not raise; it returns the empty list
\* when the history document is missing or cannot be parsed, and otherwise
\* one entry for each completed record, in the order of the document, with
\* the record's id, type, timestamp and file count, and no entry for a
\* failed record.
C20_ListsCompleted ==
  result.op = "list" =>
    /\ ~result.raised
    /\ IF history_file.state # "ok" THEN result.backups = <<>>
       ELSE /\ Len(result.backups) = Cardinality(CompletedAt)
            /\ \A i \in DOMAIN result.backups :
                 LET backup == history_file.backups[CompletedPosition(i)]
                 IN /\ result.backups[i].id = backup.id
                    /\ result.backups[i].type = backup.type
                    /\ result.backups[i].timestamp = backup.timestamp
                    /\ result.backups[i].files = backup.file_count
                    /\ result.backups[i].size_mb = MiB(backup.size_bytes)

\* C20's case: the document holds a failed record followed by a completed
\* one, and the listing has the completed one alone.
C20_Witness ==
  /\ result.op = "list"
  /\ history_file.state = "ok"
  /\ Len(history_file.backups) = 2
  /\ history_file.backups[1].status = "failed"
  /\ history_file.backups[2].status = "completed"
  /\ Len(result.backups) = 1
  /\ result.backups[1].id = history_file.backups[2].id

\* C21: in the composition where the GUI and the scheduler's thread share
\* one BackupEngine, at most one thread is inside a backup or delete
\* operation of that engine at any time.
C21_OneOperationAtATime == Cardinality(Executing) <= 1

\* C27: across any sequence of start_scheduler and stop_scheduler calls, at
\* most one scheduler thread is inside run_pending at any time.
C27_OneSchedulerLoop == Cardinality(InRunPending) <= 1

\* C22: during restore_from_backup each file copy is attempted at most three
\* times; a file whose copy fails three times is one entry of errors, is
\* skipped, and the other files are still copied; a file whose copy succeeds
\* on a later attempt is in the destination, is counted once in file_count
\* and adds no error.
C22_ThreeAttempts ==
  (result.op = "restore" /\ "raises" \in DOMAIN result) =>
    LET snap == disk[RestoredPath]
        given_up == {p \in DOMAIN result.raises : result.raises[p] >= 3}
        copied == (DOMAIN result.raises) \ given_up
    IN /\ \A p \in DOMAIN result.raises :
            /\ result.attempts[p] <= 3
            /\ result.attempts[p] =
                 (IF result.raises[p] < 3 THEN result.raises[p] + 1 ELSE 3)
       /\ result.record.status # "failed"
       /\ result.record.errors = given_up
       /\ result.record.file_count = Cardinality(copied)
       /\ \A p \in copied :
            p \in DOMAIN dest.files /\ dest.files[p] = snap.files[p]
       /\ \A p \in given_up : p \notin DOMAIN dest.files

\* C22's case: the copy of a failed three times and is the one error, while
\* the copy of b succeeded on its third attempt and is the one file counted.
C22_Witness ==
  /\ result.op = "restore"
  /\ "raises" \in DOMAIN result
  /\ DOMAIN result.raises = {"a", "b"}
  /\ result.raises["a"] = 3
  /\ result.raises["b"] = 2
  /\ result.attempts["b"] = 3
  /\ result.record.errors = {"a"}
  /\ result.record.file_count = 1
  /\ DOMAIN dest.files = {"b"}

\* The positions of the completed records of history h, and the timestamp
\* of the newest of them.
CompletedIn(h) == {i \in DOMAIN h : h[i].status = "completed"}

NewestCompleted(h) ==
  h[CHOOSE i \in CompletedIn(h) : \A j \in CompletedIn(h) : j <= i].timestamp

\* C23: the baseline _get_last_backup_time returns is the timestamp of the
\* most recent completed record of the history, of any type; a failed record
\* does not move it; with no completed record it is one year before now, and
\* an incremental or differential backup run then captures the files touched
\* within the last year.  An incremental backup copies the files modified
\* after that baseline.
C23_IncrementalBaseline ==
  /\ _get_last_backup_time(backup_history, now) =
       (IF CompletedIn(backup_history) = {} THEN now - OneYear
        ELSE NewestCompleted(backup_history))
  /\ (backup_history # <<>>
        /\ backup_history[Len(backup_history)].status = "failed") =>
       _get_last_backup_time(backup_history, now) =
         _get_last_backup_time(PreHistory, now)
  /\ Returned("incremental") =>
       DOMAIN result.record.files =
         {p \in DOMAIN source :
            source[p].modified >
              (IF CompletedIn(PreHistory) = {} THEN now - OneYear
               ELSE NewestCompleted(PreHistory))}
  /\ ((Returned("incremental") \/ Returned("differential"))
        /\ CompletedIn(PreHistory) = {}) =>
       DOMAIN result.record.files =
         {p \in DOMAIN source : source[p].modified > now - OneYear}

\* C23's case: a completed backup, then b rewritten, then a failed attempt;
\* the incremental backup that follows still copies b.
C23_Witness ==
  /\ Returned("incremental")
  /\ Len(PreHistory) = 2
  /\ PreHistory[1].status = "completed"
  /\ PreHistory[2].status = "failed"
  /\ PreHistory[2].timestamp > PreHistory[1].timestamp
  /\ DOMAIN result.record.files = {"b"}

\* C24: a restore into a destination directory that already exists either
\* removes what the directory held and restores into it, or, when the
\* removal failed, leaves it as it was and restores into the directory named
\* destination_recoveryId, which its record then names.
C24_FallbackDirectory ==
  [][(result'.op = "restore" /\ dest.exists
        /\ result'.record.status # "failed") =>
       LET snap == disk[_find_backup_path(result'.record.backup_id)]
       IN \/ /\ result'.record.destination = DestinationDir
             /\ DOMAIN dest'.files \subseteq Restorable(snap)
          \/ /\ result'.record.destination # DestinationDir
             /\ dest' = dest]_vars

TerminalStatuses == {"completed", "completed_with_warnings", "failed"}

\* C25: every record a backup returns, keeps in the history or writes to the
\* history document has a terminal status, never 'in_progress'; the record
\* returned is 'completed' exactly when the call returned ok, and a record
\* that is 'failed' in the history is not 'completed' in the document.
C25_TerminalStatus ==
  /\ \A i \in DOMAIN backup_history :
       backup_history[i].status \in TerminalStatuses
  /\ \A i \in DOMAIN history_file.backups :
       /\ history_file.backups[i].status \in TerminalStatuses
       /\ i \in DOMAIN backup_history
       /\ history_file.backups[i].status = backup_history[i].status
  /\ (result.op \in BackupOps /\ ~result.raised) =>
       /\ result.record.status \in TerminalStatuses
       /\ result.ok <=> result.record.status = "completed"

\* C25's case: manifest creation failed after the copy had been recorded as
\* completed; the record is returned and persisted as failed.
C25_Witness ==
  /\ result.op = "full"
  /\ ~result.raised
  /\ ~result.ok
  /\ result.record.error = "manifest"
  /\ "file_count" \in DOMAIN result.record
  /\ result.record.status = "failed"
  /\ history_file.state = "ok"
  /\ history_file.backups[Len(history_file.backups)].status = "failed"

\* C26: after a backup operation or delete_all_backups returns, reloading
\* the history document gives the records the engine holds in memory, in the
\* same order; after a delete_all_backups that returned ok both are empty.
C26_PersistedAgrees ==
  (result.op \in BackupOps \cup {"delete_all"} /\ ~result.raised) =>
    /\ history_file.state # "corrupt"
    /\ _load_history(history_file) = backup_history
    /\ (result.op = "delete_all" /\ result.ok) =>
         backup_history = <<>> /\ history_file.backups = <<>>

\* The full snapshots on disk created before snapshot key.
FullsBefore(key) ==
  {f \in DOMAIN disk : f[1] = "full" /\ disk[f].ctime < disk[key].ctime}

\* C28: apply_retention_policy leaves on disk the base of every incremental
\* or differential snapshot it retains: the most recent full snapshot
\* created before it is not deleted by a run in which every removal
\* succeeds.
C28_BaseRetained ==
  [][(RetentionStep /\ faults' = faults) =>
       \A key \in DOMAIN disk' :
         (key[1] \in {"incremental", "differential"}
            /\ FullsBefore(key) # {}) =>
           \E base \in FullsBefore(key) :
             /\ \A f \in FullsBefore(key) : disk[f].ctime <= disk[base].ctime
             /\ base \in DOMAIN disk']_vars

\* C29: restore_from_backup resolves the backup id before it touches the
\* destination: a restore of an id no snapshot directory has fails and
\* leaves the destination directory, and what it holds, as it was.
C29_UnresolvedLeavesDestination ==
  [][(result'.op = "restore"
        /\ _find_backup_path(result'.record.backup_id) = NoPath) =>
       /\ result'.record.status = "failed"
       /\ dest' = dest]_vars

\* C29's case: a destination that holds restored files, after a restore of
\* an id that could not be resolved.
C29_Witness ==
  /\ result.op = "restore"
  /\ _find_backup_path(result.record.backup_id) = NoPath
  /\ result.record.status = "failed"
  /\ dest.exists
  /\ {"a", "b"} \subseteq DOMAIN dest.files

\* What the nested restore of the full snapshot of the chain that has just
\* returned gave, the destination not existing before the chain.
NestedFull ==
  Restored(result.call.full_backup_id, NoDir, DestinationDir, "ok", {})

\* The positions of the increment ids of that chain no snapshot directory
\* has.
Unresolved ==
  {i \in DOMAIN result.call.incremental_backup_ids :
     _find_backup_path(result.call.incremental_backup_ids[i]) = NoPath}

\* The snapshots of that chain before its first unresolvable increment id.
AppliedKeys ==
  {_find_backup_path(result.call.full_backup_id)}
    \cup {_find_backup_path(result.call.incremental_backup_ids[i]) :
            i \in {j \in DOMAIN result.call.incremental_backup_ids :
                     \A u \in Unresolved : j < u}}

\* C30: restore_incremental_chain returns ok with status 'completed' only if
\* the nested restore of the full snapshot returned ok and every increment
\* id resolved; when the full restore is not ok (also when it ended
\* 'completed_with_warnings') or an increment id is unresolvable it returns
\* not ok with status 'failed', and no increment listed after the
\* unresolvable one is applied to the destination.
C30_ChainOutcome ==
  result.op = "chain" =>
    /\ ~result.raised
    /\ result.ok <=> result.record.status = "completed"
    /\ ~result.ok <=> result.record.status = "failed"
    /\ result.ok <=> (NestedFull.ok /\ Unresolved = {})
    /\ (NestedFull.ok /\ Unresolved # {}) =>
         \A p \in DOMAIN dest.files :
           \E key \in AppliedKeys :
             p \in DOMAIN disk[key].files /\ dest.files[p] = disk[key].files[p]

\* C30's case: the full snapshot restored, the first increment id is
\* unknown, and the increment listed after it, which holds a newer b, was
\* not applied.
C30_Witness ==
  /\ result.op = "chain"
  /\ NestedFull.ok
  /\ Len(result.call.incremental_backup_ids) = 2
  /\ Unresolved = {1}
  /\ ~result.ok
  /\ result.record.status = "failed"
  /\ LET later == disk[_find_backup_path(result.call.incremental_backup_ids[2])]
     IN /\ "b" \in DOMAIN later.files
        /\ "b" \in DOMAIN dest.files
        /\ later.files["b"] # dest.files["b"]

====
